---- MODULE Spec2Model ----
(***************************************************************************)
(* A model of the S-expression parser of im-ruscal (src/main.rs): the      *)
(* lexer (whitespace, ident, number, lparen, rparen, token) as operators   *)
(* on character sequences, and the tree builder (source) both as a         *)
(* recursive operator and as a state machine that executes one iteration   *)
(* of source's loop per step, with one stack frame per active call.        *)
(*                                                                         *)
(* A &str is a sequence of one-character strings.  Option<(&str, Token)>   *)
(* is None (the empty tuple) or <<rest, token>>.  A Token is a tuple whose *)
(* first element is its tag; a TokenTree likewise.                         *)
(***************************************************************************)
EXTENDS Integers, Sequences, FiniteSets, TLC

\* Longest input string explored.
MaxLen == 4

\* The characters inputs are drawn from: a letter, a digit, the dot, a sign,
\* both parentheses, the space, and a character no category matches.
Chars == {"a", "1", ".", "-", "(", ")", " ", "#"}

Inputs == UNION {[1..n -> Chars] : n \in 0..MaxLen}

----------------------------------------------------------------------------
(* Character classes of the match patterns *)

Letters ==
    {"a","b","c","d","e","f","g","h","i","j","k","l","m",
     "n","o","p","q","r","s","t","u","v","w","x","y","z",
     "A","B","C","D","E","F","G","H","I","J","K","L","M",
     "N","O","P","Q","R","S","T","U","V","W","X","Y","Z"}

DigitSeq == <<"0","1","2","3","4","5","6","7","8","9">>

Digits == {DigitSeq[i] : i \in 1..10}

\* A bug: an identifier may start with a digit.
IdentStart_alnum == Letters \cup Digits

IdentStart == Letters

\* A bug: an identifier continues over letters only.
IdentCont_lettersOnly == Letters

IdentCont == Letters \cup Digits

NumberStart == {"-", "+", "."} \cup Digits

NumberCont == {"."} \cup Digits

----------------------------------------------------------------------------
(* Values *)

None == <<>>

Some(rest, tok) == <<rest, tok>>

Ident(text) == <<"Ident", text>>

Number(num) == <<"Number", num>>

LParen == <<"LParen">>

RParen == <<"RParen">>

TokenLeaf(tok) == <<"Token", tok>>

Tree(tokens) == <<"Tree", tokens>>

----------------------------------------------------------------------------
(* Cursor primitives *)

\* Option<char>: the next character, or NoChar at the end of the input.
NoChar == ""

peek_char(input) == IF input = <<>> THEN NoChar ELSE Head(input)

advance_char(input) == IF input = <<>> THEN <<>> ELSE Tail(input)

\* A bug: a single space is skipped, not the run.
whitespace_one(input) ==
    IF peek_char(input) = " " THEN Tail(input) ELSE input

RECURSIVE whitespace(_)
whitespace(input) ==
    IF peek_char(input) = " " THEN whitespace(Tail(input)) ELSE input

----------------------------------------------------------------------------
(* str::parse::<f64> on the substrings number hands it: an optional sign,  *)
(* then digits with at most one dot and at least one digit.  The value is  *)
(* <<n, k>>, standing for n / 10^k with no trailing zero in the fraction,  *)
(* so that equal floats are equal values ("1", "1.", "1.0", "01"), and     *)
(* -0.0 equals 0.0 as f64's PartialEq has it.                              *)

DigitVal(c) == (CHOOSE i \in 1..10 : DigitSeq[i] = c) - 1

CountOf(str, set) == Cardinality({i \in 1..Len(str) : str[i] \in set})

RECURSIVE Mantissa(_)
Mantissa(str) ==
    IF str = <<>> THEN 0
    ELSE LET c == str[Len(str)]
             rest == SubSeq(str, 1, Len(str) - 1)
         IN  IF c = "." THEN Mantissa(rest)
             ELSE 10 * Mantissa(rest) + DigitVal(c)

FracDigits(str) ==
    IF \E i \in 1..Len(str) : str[i] = "."
    THEN Len(str) - (CHOOSE i \in 1..Len(str) : str[i] = ".")
    ELSE 0

RECURSIVE Normalize(_, _)
Normalize(n, k) ==
    IF k > 0 /\ n % 10 = 0 THEN Normalize(n \div 10, k - 1) ELSE <<n, k>>

\* Ok(value) is <<value>>, Err is <<>>.
parse_f64(str) ==
    LET signed == str # <<>> /\ Head(str) \in {"+", "-"}
        body == IF signed THEN Tail(str) ELSE str
        valid == /\ \A i \in 1..Len(body) : body[i] \in NumberCont
                 /\ CountOf(body, {"."}) <= 1
                 /\ CountOf(body, Digits) >= 1
        mag == Normalize(Mantissa(body), FracDigits(body))
    IN  IF ~valid THEN <<>>
        ELSE IF signed /\ Head(str) = "-" THEN << <<0 - mag[1], mag[2]>> >>
        ELSE << mag >>

----------------------------------------------------------------------------
(* The four categories *)

RECURSIVE identRun(_)
identRun(input) ==
    IF peek_char(input) \in IdentCont
    THEN identRun(advance_char(input))
    ELSE input

ident(input) ==
    LET start == input IN
    IF peek_char(input) \in IdentStart
    THEN LET rest == identRun(advance_char(input))
         IN  Some(rest, Ident(SubSeq(start, 1, Len(start) - Len(rest))))
    ELSE None

\* A bug: the run after the first character takes digits only.
RECURSIVE numberRun_digitsOnly(_)
numberRun_digitsOnly(input) ==
    IF peek_char(input) \in Digits
    THEN numberRun_digitsOnly(advance_char(input))
    ELSE input

RECURSIVE numberRun(_)
numberRun(input) ==
    IF peek_char(input) \in NumberCont
    THEN numberRun(advance_char(input))
    ELSE input

number(input) ==
    LET start == input IN
    IF peek_char(input) \in NumberStart
    THEN LET rest == numberRun(advance_char(input))
             num == parse_f64(SubSeq(start, 1, Len(start) - Len(rest)))
         IN  IF num # <<>> THEN Some(rest, Number(num[1])) ELSE None
    ELSE None

\* A bug: the open-paren is matched and not consumed.
lparen_noAdvance(input) ==
    IF peek_char(input) = "(" THEN Some(input, LParen) ELSE None

lparen(input) ==
    IF peek_char(input) = "(" THEN Some(advance_char(input), LParen) ELSE None

\* A bug: the close-paren is matched and not consumed.
rparen_noAdvance(input) ==
    IF peek_char(input) = ")" THEN Some(input, RParen) ELSE None

rparen(input) ==
    IF peek_char(input) = ")" THEN Some(advance_char(input), RParen) ELSE None

token(input) ==
    IF ident(whitespace(input)) # None THEN ident(whitespace(input))
    ELSE IF number(whitespace(input)) # None THEN number(whitespace(input))
    ELSE IF lparen(whitespace(input)) # None THEN lparen(whitespace(input))
    ELSE IF rparen(whitespace(input)) # None THEN rparen(whitespace(input))
    ELSE None

----------------------------------------------------------------------------
(* source as a function: sourceLoop is the while loop with its two locals *)

RECURSIVE sourceLoop(_, _)
sourceLoop(input, tokens) ==
    IF input = <<>> THEN <<input, Tree(tokens)>>
    ELSE LET r == token(input) IN
         IF r = None THEN <<input, Tree(tokens)>>
         ELSE LET next_input == r[1]
                  tok == r[2]
              IN  IF tok = LParen
                  THEN LET sub == sourceLoop(next_input, <<>>)
                       IN  sourceLoop(sub[1], Append(tokens, sub[2]))
                  ELSE IF tok = RParen
                  THEN <<next_input, Tree(tokens)>>
                  ELSE sourceLoop(next_input, Append(tokens, TokenLeaf(tok)))

source(input) == sourceLoop(input, <<>>)

----------------------------------------------------------------------------
(* source as a state machine.  stack holds one frame per active call of    *)
(* source, the innermost last; a frame is the call's two locals, input and *)
(* tokens.  A caller's frame keeps the input it had when it made the       *)
(* recursive call, until the call returns.  ret is the outermost call's    *)
(* return value once it has returned.                                      *)

VARIABLES s, stack, ret

vars == <<s, stack, ret>>

Frame(input, tokens) == [input |-> input, tokens |-> tokens]

Running == stack # <<>>

Done == stack = <<>> /\ ret # <<>>

Top == stack[Len(stack)]

Depth == Len(stack)

Init ==
    /\ s \in Inputs
    /\ stack = <<Frame(s, <<>>)>>
    /\ ret = <<>>

\* A bug: the caller takes the returned cursor and forgets to push the tree.
Return_dropTree(input, tree) ==
    IF Len(stack) = 1
    THEN /\ stack' = <<>>
         /\ ret' = <<input, tree>>
    ELSE LET caller == stack[Len(stack) - 1] IN
         /\ stack' = Append(SubSeq(stack, 1, Len(stack) - 2),
                            Frame(input, caller.tokens))
         /\ UNCHANGED ret

\* The innermost call returns (input, tree): to main, or into the caller's
\* LParen arm, which pushes the tree and takes the returned cursor.
Return(input, tree) ==
    IF Len(stack) = 1
    THEN /\ stack' = <<>>
         /\ ret' = <<input, tree>>
    ELSE LET caller == stack[Len(stack) - 1] IN
         /\ stack' = Append(SubSeq(stack, 1, Len(stack) - 2),
                            Frame(input, Append(caller.tokens, tree)))
         /\ UNCHANGED ret

\* The loop test of the innermost call, and what its call of token gives.
AtEnd == Running /\ Top.input = <<>>

Lexing == Running /\ Top.input # <<>>

NextToken == token(Top.input)

ReadsNothing == Lexing /\ NextToken = None

ReadsLParen == Lexing /\ NextToken # None /\ NextToken[2] = LParen

ReadsRParen == Lexing /\ NextToken # None /\ NextToken[2] = RParen

ReadsLeaf ==
    Lexing /\ NextToken # None /\ NextToken[2][1] \in {"Ident", "Number"}

\* A bug: at the end of the input the call returns an empty group.
Exhausted_emptyGroup ==
    /\ AtEnd
    /\ Return(Top.input, Tree(<<>>))
    /\ UNCHANGED s

\* while !input.is_empty() fails: fall out of the loop.
Exhausted ==
    /\ AtEnd
    /\ Return(Top.input, Tree(Top.tokens))
    /\ UNCHANGED s

\* A bug: the character that matches nothing is skipped and the loop goes on.
NoMatch_skipChar ==
    /\ ReadsNothing
    /\ stack' = [stack EXCEPT ![Len(stack)] =
                    Frame(Tail(Top.input), Top.tokens)]
    /\ UNCHANGED <<s, ret>>

\* token returns None: break.
NoMatch ==
    /\ ReadsNothing
    /\ Return(Top.input, Tree(Top.tokens))
    /\ UNCHANGED s

\* Token::LParen: call source on the cursor after the parenthesis.
OpenGroup ==
    /\ ReadsLParen
    /\ stack' = Append(stack, Frame(NextToken[1], <<>>))
    /\ UNCHANGED <<s, ret>>

\* Token::RParen: return at once.
CloseGroup ==
    /\ ReadsRParen
    /\ Return(NextToken[1], Tree(Top.tokens))
    /\ UNCHANGED s

\* Any other token: push it as a leaf.
PushToken ==
    /\ ReadsLeaf
    /\ stack' = [stack EXCEPT ![Len(stack)] =
                    Frame(NextToken[1],
                          Append(Top.tokens, TokenLeaf(NextToken[2])))]
    /\ UNCHANGED <<s, ret>>

Next ==
    \/ Exhausted
    \/ NoMatch
    \/ OpenGroup
    \/ CloseGroup
    \/ PushToken

Spec == Init /\ [][Next]_vars

\* The state machine computes what the function computes.
RetIsSource == Done => ret = source(s)

----------------------------------------------------------------------------
(* Common vocabulary of the properties *)

\* The cursor the program holds: the innermost call's, or the returned one.
Cursor == IF Running THEN Top.input ELSE ret[1]

\* How many characters of s lie before the cursor.
Offset == Len(s) - Len(Cursor)

AllSpaces(str) == \A i \in 1..Len(str) : str[i] = " "

\* The innermost call is at its loop head and the next character after the
\* spaces is a close-paren.
AtCloseParen == Running /\ peek_char(whitespace(Top.input)) = ")"

----------------------------------------------------------------------------
(* C1 *)

\* What one step does to the cursors: the loop goes on in the same call with
\* a strictly shorter cursor, or a recursive call starts on a strictly
\* shorter cursor, or the innermost call ends, and then its caller's loop
\* goes on with a cursor strictly shorter than the one that iteration began
\* with.
StepShrinks ==
    /\ Running
    /\ \/ /\ Len(stack') = Len(stack)
          /\ Len(stack'[Len(stack)].input) < Len(Top.input)
       \/ /\ Len(stack') = Len(stack) + 1
          /\ Len(stack'[Len(stack) + 1].input) < Len(Top.input)
          /\ stack'[Len(stack)] = Top
       \/ /\ Len(stack') = Len(stack) - 1
          /\ Len(stack) > 1 =>
                Len(stack'[Len(stack) - 1].input)
                    < Len(stack[Len(stack) - 1].input)
          /\ Len(stack) = 1 =>
                /\ ret' # <<>>
                /\ Len(ret'[1]) <= Len(s)
                /\ ret'[2][1] = "Tree"

\* The innermost call has a next step.
CanStep == AtEnd \/ ReadsNothing \/ ReadsLParen \/ ReadsRParen \/ ReadsLeaf

\* A natural number every step lowers: what bounds the length of a run.
Measure == 2 * Len(Cursor) + Len(stack)

\* C1: on every input, balanced or not, with or without characters no
\* category matches, source terminates and returns a (cursor, Group) pair:
\* every iteration of its loop ends the call or continues with a strictly
\* shorter cursor, and every recursive call is made on a strictly shorter
\* cursor.  Every step lowers Measure, so runs are finite, and until the
\* outermost call has returned some arm of the loop applies.
C1_SourceTerminates ==
    /\ [][StepShrinks /\ Measure' < Measure]_vars
    /\ [](Done \/ CanStep)

\* An unbalanced input with an unmatched character has been parsed to the
\* end, through a recursive call.
C1_Witness ==
    /\ Done
    /\ s = <<"(", ")", ")", "#">>
    /\ ret = << <<"#">>, Tree(<<Tree(<<>>)>>) >>

----------------------------------------------------------------------------
(* C2 *)

\* C2: when the input left unparsed consists of spaces only, the cursor
\* source returns is empty (a no-match yields the trimmed cursor).
C2_TrailingSpacesConsumed == (Done /\ AllSpaces(ret[1])) => ret[1] = <<>>

----------------------------------------------------------------------------
(* C5 *)

\* What a call that reads a close-paren does: it returns the cursor just
\* after that close-paren and the children it has, pushing nothing.
ClosesHere ==
    LET after == Tail(whitespace(Top.input))
        group == Tree(Top.tokens)
    IN  IF Len(stack) = 1
        THEN stack' = <<>> /\ ret' = <<after, group>>
        ELSE /\ Len(stack') = Len(stack) - 1
             /\ stack'[Len(stack')].input = after
             /\ stack'[Len(stack')].tokens =
                    Append(stack[Len(stack) - 1].tokens, group)
             /\ \A i \in 1..(Len(stack) - 2) : stack'[i] = stack[i]
             /\ ret' = ret

\* C5: a call of source that reads a CloseParen returns at once, with the
\* cursor just after that close-paren and a Group of exactly the children it
\* has accumulated; the close-paren is no child, and the call parses nothing
\* after it.  At the outermost call the rest of the input is returned
\* unparsed.
C5_CloseParenReturns == [][AtCloseParen => ClosesHere]_vars

\* The outermost call has returned on an extra close-paren, leaving input
\* unparsed and keeping the child it had.
C5_Witness ==
    /\ Done
    /\ s = <<"a", " ", ")", "a">>
    /\ ret = << <<"a">>, Tree(<<TokenLeaf(Ident(<<"a">>))>>) >>

----------------------------------------------------------------------------
(* C10 *)

\* The input before the cursor.
Consumed == SubSeq(s, 1, Offset)

\* C10: when token finds no match on a non-empty cursor, at any depth, the
\* call returns that same cursor, and so does every enclosing call in turn;
\* nothing after that point, later close-parens included, is in the tree or
\* changes it: the tree is the tree of the input cut at that point.
C10_NoMatchEndsParse ==
    [][ReadsNothing =>
          /\ Len(stack') = Len(stack) - 1
          /\ Cursor' = Cursor
          /\ source(s)[1] = Cursor
          /\ source(s)[2] = source(Consumed)[2]]_vars

\* A no-match inside a group, with a close-paren and a token after it, has
\* ended the parse: the cursor returned still begins at the spaces.
C10_Witness ==
    /\ Done
    /\ s = <<"(", " ", "#", ")">>
    /\ ret = << <<" ", "#", ")">>, Tree(<<Tree(<<>>)>>) >>

----------------------------------------------------------------------------
(* The input as a flat run of lexical units, for C3 and C6 *)

\* The units token yields when called again and again from input.
RECURSIVE LexAll(_)
LexAll(input) ==
    IF input = <<>> \/ token(input) = None THEN <<>>
    ELSE <<token(input)[2]>> \o LexAll(token(input)[1])

\* What is left where that stops.
RECURSIVE LexRest(_)
LexRest(input) ==
    IF input = <<>> \/ token(input) = None THEN input
    ELSE LexRest(token(input)[1])

\* Open-parens less close-parens among the first i units.
OpenAfter(toks, i) ==
    Cardinality({j \in 1..i : toks[j] = LParen})
        - Cardinality({j \in 1..i : toks[j] = RParen})

\* The input is units and spaces only, and no close-paren lacks its open.
NoExtraClose(input) ==
    /\ AllSpaces(LexRest(input))
    /\ \A i \in 1..Len(LexAll(input)) : OpenAfter(LexAll(input), i) >= 0

Unclosed(input) == OpenAfter(LexAll(input), Len(LexAll(input)))

Balanced(input) == NoExtraClose(input) /\ Unclosed(input) = 0

UnitCount(input) ==
    Cardinality({j \in 1..Len(LexAll(input)) :
                    LexAll(input)[j][1] \in {"Ident", "Number"}})

MaxOf(set) == IF set = {} THEN 0 ELSE CHOOSE m \in set : \A n \in set : n <= m

MaxParenDepth(input) ==
    MaxOf({OpenAfter(LexAll(input), i) : i \in 0..Len(LexAll(input))})

RECURSIVE LeafCount(_)
LeafCount(tree) ==
    IF tree[1] = "Token" THEN 1
    ELSE LET kids == tree[2]
             RECURSIVE Sum(_)
             Sum(i) == IF i = 0 THEN 0 ELSE LeafCount(kids[i]) + Sum(i - 1)
         IN  Sum(Len(kids))

\* Groups nested below a group; the root group itself is depth 0.
RECURSIVE TreeDepth(_)
TreeDepth(tree) ==
    MaxOf({1 + TreeDepth(tree[2][i]) :
              i \in {j \in 1..Len(tree[2]) : tree[2][j][1] = "Tree"}})

RECURSIVE Closers(_)
Closers(k) == IF k = 0 THEN <<>> ELSE <<")">> \o Closers(k - 1)

----------------------------------------------------------------------------
(* C3 *)

\* C3: for an input of balanced parenthesized groups of identifiers and
\* numbers separated by spaces, the returned tree has as many leaves as the
\* input has identifier and number units, and its groups nest as deep as
\* the input's parentheses.
C3_LeavesAndDepth ==
    (Done /\ Balanced(s)) =>
        /\ LeafCount(ret[2]) = UnitCount(s)
        /\ TreeDepth(ret[2]) = MaxParenDepth(s)

\* A balanced input with a leaf inside a group has been parsed.
C3_Witness ==
    /\ Done
    /\ Balanced(s)
    /\ UnitCount(s) = 2
    /\ MaxParenDepth(s) = 1
    /\ s = <<"1", "(", "a", ")">>

----------------------------------------------------------------------------
(* C6 *)

\* C6: for an input of units and spaces in which no close-paren lacks its
\* open and k >= 1 groups are left open, source returns, and the tree is
\* the tree of the same input with k close-parens appended.
C6_ImplicitClose ==
    (Done /\ NoExtraClose(s) /\ Unclosed(s) >= 1) =>
        ret[2] = source(s \o Closers(Unclosed(s)))[2]

\* An input that leaves two groups open, the inner one with a child, has
\* been parsed.
C6_Witness ==
    /\ Done
    /\ s = <<"(", "(", "a", " ">>
    /\ Unclosed(s) = 2
    /\ ret[2] = Tree(<<Tree(<<Tree(<<TokenLeaf(Ident(<<"a">>))>>)>>)>>)

----------------------------------------------------------------------------
(* C4 *)

InsertSpace(str, pos) ==
    SubSeq(str, 1, pos) \o <<" ">> \o SubSeq(str, pos + 1, Len(str))

\* The cursor stands between two units: one was read before it, one follows.
BetweenTokens == Lexing /\ Offset > 0 /\ NextToken # None

\* The spaces at the cursor.
RunLen == Len(Cursor) - Len(whitespace(Cursor))

\* s with the first j spaces at the cursor removed.
DropSpaces(j) == Consumed \o SubSeq(Cursor, j + 1, Len(Cursor))

SameTree(str) == source(str)[2] = source(s)[2]

\* A parenthesis is the unit before the cursor or the unit after it.
ParenBeside == s[Offset] \in {"(", ")"} \/ NextToken[2] \in {LParen, RParen}

\* C4, as stated: inserting or removing a run of spaces between two tokens
\* never changes the tree.
C4_WhitespaceIdempotent ==
    BetweenTokens =>
        /\ SameTree(InsertSpace(s, Offset))
        /\ \A j \in 1..RunLen : SameTree(DropSpaces(j))

\* C4, amended: inserting spaces between two tokens never changes the tree,
\* and removing spaces from the run between them does not either, as long
\* as a space remains or one of the two tokens is a parenthesis.
C4_WhitespaceAmended ==
    BetweenTokens =>
        /\ SameTree(InsertSpace(s, Offset))
        /\ \A j \in 1..(RunLen - 1) : SameTree(DropSpaces(j))
        /\ ParenBeside => SameTree(DropSpaces(RunLen))

\* The cursor is at a run of two spaces between two identifiers.
C4_Witness ==
    /\ BetweenTokens
    /\ RunLen = 2
    /\ s = <<"a", " ", " ", "a">>
    /\ Top.tokens = <<TokenLeaf(Ident(<<"a">>))>>

----------------------------------------------------------------------------
(* C7, C8, C9: the categories at the place token tries them *)

\* The cursor token hands to each category.
Trimmed == whitespace(Top.input)

\* The length of the longest prefix of str made of characters of set.
PrefixLen(str, set) ==
    CHOOSE n \in 0..Len(str) :
        /\ \A i \in 1..n : str[i] \in set
        /\ n = Len(str) \/ str[n + 1] \notin set

IsIdentifier(str) ==
    /\ str # <<>>
    /\ str[1] \in Letters
    /\ \A i \in 1..Len(str) : str[i] \in Letters \cup Digits

\* C7: at a letter, ident returns the longest run of letters and digits
\* starting there, first character included, and the cursor just past it,
\* and token returns just that; at anything else ident returns no match.
\* An input that is one identifier becomes one Identifier leaf with that
\* text.
C7_IdentRecognition ==
    /\ Running =>
          LET n == PrefixLen(Trimmed, Letters \cup Digits) IN
          IF peek_char(Trimmed) \in Letters
          THEN /\ ident(Trimmed) =
                     << SubSeq(Trimmed, n + 1, Len(Trimmed)),
                        Ident(SubSeq(Trimmed, 1, n)) >>
               /\ NextToken = ident(Trimmed)
          ELSE ident(Trimmed) = None
    /\ (Done /\ IsIdentifier(s)) =>
          ret = << <<>>, Tree(<<TokenLeaf(Ident(s))>>) >>

\* An identifier with a digit in it, after a space and before a
\* close-paren, has been read as one leaf.
C7_Witness ==
    /\ Done
    /\ s = <<" ", "a", "1", ")">>
    /\ ret = << <<>>, Tree(<<TokenLeaf(Ident(<<"a", "1">>))>>) >>

\* The run number captures at str: the first character and the digits and
\* dots that follow it.
NumberRunLen(str) == 1 + PrefixLen(Tail(str), {"."} \cup Digits)

\* C8: at '+', '-', '.' or a digit, number captures that character and the
\* longest run of digits and dots after it; if that is a float literal it
\* returns the Number and the cursor just past the run, and otherwise no
\* match, with no shorter prefix tried, and then token matches nothing
\* there.  Elsewhere number returns no match.
C8_NumberAllOrNothing ==
    Running =>
        IF peek_char(Trimmed) \in {"+", "-", "."} \cup Digits
        THEN LET n == NumberRunLen(Trimmed)
                 num == parse_f64(SubSeq(Trimmed, 1, n))
             IN  IF num # <<>>
                 THEN /\ number(Trimmed) =
                            << SubSeq(Trimmed, n + 1, Len(Trimmed)),
                               Number(num[1]) >>
                      /\ NextToken = number(Trimmed)
                 ELSE /\ number(Trimmed) = None
                      /\ NextToken = None
        ELSE number(Trimmed) = None

\* A run with two dots, whose prefix "1." is a float, has matched nothing
\* and ended the parse with nothing consumed.
C8_Witness ==
    /\ Done
    /\ s = <<"1", ".", ".", "1">>
    /\ ret = <<s, Tree(<<>>)>>

\* The 24 orders of the four categories.
Orders ==
    {o \in {<<a, b, c, d>> : a \in 1..4, b \in 1..4, c \in 1..4, d \in 1..4} :
        Cardinality({o[1], o[2], o[3], o[4]}) = 4}

\* What the four categories return at input.
Matches(input) == <<ident(input), number(input), lparen(input), rparen(input)>>

\* The first match among results, taken in the order o from its i-th place.
RECURSIVE FirstMatch(_, _, _)
FirstMatch(o, i, results) ==
    IF i > 4 THEN None
    ELSE IF results[o[i]] # None THEN results[o[i]]
    ELSE FirstMatch(o, i + 1, results)

\* C9: at any cursor at most one of the four categories matches, and token
\* returns the same in whatever order they are tried.
C9_OrderIrrelevant ==
    Running =>
        \A results \in {Matches(Trimmed)}, tok \in {NextToken} :
            /\ Cardinality({i \in 1..4 : results[i] # None}) <= 1
            /\ \A o \in Orders : FirstMatch(o, 1, results) = tok

\* A digit followed by a letter has been read as a number: the one place
\* where an identifier's characters and a number's meet.
C9_Witness ==
    /\ Running
    /\ s = <<"1", "a">>
    /\ Top.input = <<"a">>
    /\ Top.tokens = <<TokenLeaf(Number(<<1, 0>>))>>

====
